---------------------------- MODULE Spec2Model ----------------------------
(***************************************************************************)
(* Model of the real-time ingestion-and-broadcast path of the water-meter  *)
(* server (src/app.py): the WSManager registry, its broadcast pass, the    *)
(* websocket endpoint and the /api/ingest handler.                         *)
(*                                                                         *)
(* The server runs on one asyncio event loop: code between two awaits is   *)
(* atomic, and every `await` on the transport (accept, send_json) is a     *)
(* suspension point.  Each action below is the code one task runs between  *)
(* two suspension points.  A websocket is an ordered channel: a message is *)
(* handed to the transport when send_json is called, and the call returns  *)
(* (or raises) at some later, unconstrained moment.                        *)
(***************************************************************************)
EXTENDS Integers, Sequences, FiniteSets, TLC

\* ------------------------------------------------------------------ bounds
MaxConns == 2
MaxReqs == 2
TicksPerSecond == 2

Conns == 1..MaxConns
Reqs == 1..MaxReqs

\* ------------------------------------------------------- persisted meters
\* seed_demo: the meters table after startup (code -> id, pin).
Meters ==
  [c \in {"MED-001A", "MED-002B", "MED-003C"} |->
     CASE c = "MED-001A" -> [id |-> 1, pin |-> "1111"]
       [] c = "MED-002B" -> [id |-> 2, pin |-> "2222"]
       [] OTHER          -> [id |-> 3, pin |-> "3333"]]

\* Meter codes and pins the ingest requests are drawn from ("MED-404X" is no
\* meter), and the meter codes the live channels are opened for.
Codes == {"MED-001A", "MED-404X"}
Pins == {"1111", "2222"}
WsCodes == {"MED-001A", "MED-002B"}

\* JSON values of the numeric fields: a number, a numeric string, or a
\* string that is not a number.
Num(n) == [t |-> "num", v |-> n]
Str(n) == [t |-> "str", v |-> n]
BadStr == [t |-> "bad", v |-> 0]

\* The numeric part of the request bodies that are sent.
Samples ==
  { [flow_lps |-> Num(2), liters_delta |-> Str(1), liters_total |-> Num(3)],
    [flow_lps |-> Num(1), liters_total |-> Num(2)],
    [liters_delta |-> BadStr] }

\* Variant of Get: a missing key yields a value that is no number.
GetNoDefault(d, k, default) == IF k \in DOMAIN d THEN d[k] ELSE BadStr

\* dict.get(key, default)
Get(d, k, default) == IF k \in DOMAIN d THEN d[k] ELSE default

\* float(x): defined on numbers and numeric strings, raises ValueError else.
FloatOk(j) == j.t \in {"num", "str"}
Float(j) == j.v

\* datetime.strftime("%Y-%m-%d %H:%M:%S"): drops the sub-second part.
Strftime(t) == t \div TicksPerSecond

VARIABLES
  active,     \* WSManager.active: meter_code -> set of websockets, each set
              \* held as the duplicate-free sequence in which it iterates
  readings,   \* the readings table, in insertion order
  clock,      \* the wall clock, in ticks
  wsPc,       \* position of each websocket_endpoint task
  wsMeter,    \* the meter_code path parameter of each websocket
  transport,  \* far end of each websocket: "open" or "closed"
  received,   \* the events each subscriber has received, in order
  task        \* each ingest request: position, locals and result (tried
              \* lists the websockets send_json was called on, in order)

vars == <<active, readings, clock, wsPc, wsMeter, transport, received, task>>

\* datetime.now(): the clock moves on between any two readings of it.
Now == clock + 1

NoPayload ==
  [meter_code |-> "", flow_lps |-> 0, liters_delta |-> 0, liters_total |-> 0,
   timestamp |-> 0, status |-> "", rid |-> 0]

IdleTask ==
  [pc |-> "idle", code |-> "", pin |-> "", sample |-> [k \in {} |-> Num(0)],
   result |-> "", committed |-> FALSE, bcast |-> 0, payload |-> NoPayload,
   snap |-> <<>>, todo |-> <<>>, cur |-> 0, curOk |-> FALSE, dead |-> <<>>,
   tried |-> <<>>]

Init ==
  /\ active = [m \in {} |-> <<>>]
  /\ readings = <<>>
  /\ clock = 0
  /\ wsPc = [c \in Conns |-> "new"]
  /\ wsMeter = [c \in Conns |-> ""]
  /\ transport = [c \in Conns |-> "open"]
  /\ received = [c \in Conns |-> <<>>]
  /\ task = [r \in Reqs |-> IdleTask]

\* ---------------------------------------------------------------- WSManager
Range(q) == {q[i] : i \in 1..Len(q)}

\* The sequence q with x put in at position i.
InsertAt(q, i, x) == SubSeq(q, 1, i - 1) \o <<x>> \o SubSeq(q, i, Len(q))

\* set.add(ws): no change if ws is a member; else ws takes a place in the
\* iteration order that its hash decides, which may be any.
SetAdd(q, ws) ==
  IF ws \in Range(q) THEN {q} ELSE {InsertAt(q, i, ws) : i \in 1..Len(q) + 1}

\* set.discard(ws): the other members keep their order.
SetDiscard(q, ws) == SelectSeq(q, LAMBDA x : x # ws)

\* self.active.setdefault(meter_code, set()).add(websocket): the registry
\* values the call may leave.
Register(act, m, ws) ==
  { [k \in DOMAIN act \cup {m} |-> IF k = m THEN q ELSE act[k]] :
      q \in SetAdd(IF m \in DOMAIN act THEN act[m] ELSE <<>>, ws) }

\* Variant of Disconnect: discards the websocket and keeps the emptied set.
DisconnectKeepEmpty(act, m, ws) ==
  IF m \in DOMAIN act THEN [act EXCEPT ![m] = SetDiscard(@, ws)] ELSE act

\* Variant of Disconnect: the meter's entry is deleted whether or not the
\* set is empty.
DisconnectAlwaysDelete(act, m, ws) ==
  IF m \in DOMAIN act THEN [k \in DOMAIN act \ {m} |-> act[k]] ELSE act

\* WSManager.disconnect, as a function of the registry value.
Disconnect(act, m, ws) ==
  IF m \in DOMAIN act
  THEN LET q == SetDiscard(act[m], ws)
       IN  IF q = <<>>
           THEN [k \in DOMAIN act \ {m} |-> act[k]]
           ELSE [act EXCEPT ![m] = q]
  ELSE act

\* Variant of Prune: the dead websockets are not unregistered.
PruneNone(act, m, dead) == act

\* Variant of Prune: a failed delivery drops the whole entry of the meter.
PruneMeter(act, m, dead) ==
  IF dead = <<>> \/ m \notin DOMAIN act THEN act
  ELSE [k \in DOMAIN act \ {m} |-> act[k]]

\* for ws in dead: self.disconnect(meter_code, ws)
RECURSIVE Prune(_, _, _)
Prune(act, m, dead) ==
  IF dead = <<>> THEN act
  ELSE Prune(Disconnect(act, m, Head(dead)), m, Tail(dead))

\* ws.send_json succeeds iff the far end of the websocket is still there.
SendOk(ws) == transport[ws] = "open"

\* The transport after send_json(ev) was called on ws.
Deliver(rcv, ws, ev) ==
  IF SendOk(ws) THEN [rcv EXCEPT ![ws] = Append(@, ev)] ELSE rcv

\* ------------------------------------------------------- websocket_endpoint
\* The first message of a live channel.
InitialEvent(m, t) ==
  [meter_code |-> m, flow_lps |-> 0, liters_delta |-> 0, liters_total |-> 0,
   timestamp |-> Strftime(t), status |-> "connected", rid |-> 0]

\* A client opens /ws/meter/{m}: the endpoint task starts and suspends in
\* `await websocket.accept()`.  The path parameter is not validated.
ConnectCall(c, m) ==
  /\ wsPc[c] = "new"
  /\ wsPc' = [wsPc EXCEPT ![c] = "accepting"]
  /\ wsMeter' = [wsMeter EXCEPT ![c] = m]
  /\ UNCHANGED <<active, readings, clock, transport, received, task>>

\* Variant of AcceptReturn: the websocket is registered and the endpoint goes
\* to its loop without the initial event.
AcceptReturnNoGreeting(c) ==
  /\ wsPc[c] = "accepting"
  /\ active' \in Register(active, wsMeter[c], c)
  /\ wsPc' = [wsPc EXCEPT ![c] = "loop"]
  /\ UNCHANGED <<readings, clock, wsMeter, transport, received, task>>

\* accept() returns: connect registers the websocket, and the endpoint calls
\* send_json with the initial event without suspending in between.  If that
\* send raises, the exception leaves the endpoint (it is outside the try).
AcceptReturn(c) ==
  /\ wsPc[c] = "accepting"
  /\ active' \in Register(active, wsMeter[c], c)
  /\ clock' = Now
  /\ received' = Deliver(received, c, InitialEvent(wsMeter[c], Now))
  /\ wsPc' = [wsPc EXCEPT ![c] = IF SendOk(c) THEN "greeting" ELSE "crashed"]
  /\ UNCHANGED <<readings, wsMeter, transport, task>>

\* accept() raises because the client is gone: the task ends unregistered.
AcceptRaise(c) ==
  /\ wsPc[c] = "accepting"
  /\ transport[c] = "closed"
  /\ wsPc' = [wsPc EXCEPT ![c] = "crashed"]
  /\ UNCHANGED <<active, readings, clock, wsMeter, transport, received, task>>

\* The initial send_json returns: the endpoint enters its keep-alive loop.
InitialSendReturn(c) ==
  /\ wsPc[c] = "greeting"
  /\ wsPc' = [wsPc EXCEPT ![c] = "loop"]
  /\ UNCHANGED <<active, readings, clock, wsMeter, transport, received, task>>

\* while True: await asyncio.sleep(60).  The loop never reads the socket, so
\* sleep never raises WebSocketDisconnect or another Exception, and neither
\* except branch (the calls of ws_manager.disconnect) is ever entered.
EndpointSleep(c) ==
  /\ wsPc[c] = "loop"
  /\ UNCHANGED vars

\* The far end closes the connection, or the network drops it.
TransportClose(c) ==
  /\ wsPc[c] # "new"
  /\ transport[c] = "open"
  /\ transport' = [transport EXCEPT ![c] = "closed"]
  /\ UNCHANGED <<active, readings, clock, wsPc, wsMeter, received, task>>

\* ------------------------------------------------------------------ ingest
\* Variant of Authorized: the pin is not compared.
AuthorizedNoPin(code, pin) == code \in DOMAIN Meters

\* meter = query(Meter).filter(meter_code == code).first();
\* not (not meter or meter.pin != pin)
Authorized(code, pin) ==
  code \in DOMAIN Meters /\ Meters[code].pin = pin

\* The three float(data.get(key, 0)) conversions all succeed.
FloatsOk(s) ==
  \A k \in {"flow_lps", "liters_delta", "liters_total"} :
    FloatOk(Get(s, k, Num(0)))

\* Reading(meter_id, flow_lps, liters_delta, liters_total, timestamp=now);
\* the primary key is assigned by the insert.
NewReading(rs, code, s, t) ==
  [id |-> Len(rs) + 1,
   meter_id |-> Meters[code].id,
   flow_lps |-> Float(Get(s, "flow_lps", Num(0))),
   liters_delta |-> Float(Get(s, "liters_delta", Num(0))),
   liters_total |-> Float(Get(s, "liters_total", Num(0))),
   timestamp |-> t]

\* Variant of Persist: the row stays in the table when the commit fails.
PersistAlways(rs, reading, commitOk) == Append(rs, reading)

\* db.add(reading); db.commit(): the row is in the table iff the commit
\* succeeds.
Persist(rs, reading, commitOk) ==
  IF commitOk THEN Append(rs, reading) ELSE rs

\* Variant of ReachesBroadcast: a failed commit is swallowed.
ReachesBroadcastAlways(commitOk) == TRUE

\* An exception of db.commit() leaves ingest: the lines after it run only
\* when the commit succeeded.
ReachesBroadcast(commitOk) == commitOk

\* Variant of Payload: liters_total carries the increment.
PayloadSwapped(code, s, t, rid) ==
  [meter_code |-> code,
   flow_lps |-> Float(Get(s, "flow_lps", Num(0))),
   liters_delta |-> Float(Get(s, "liters_delta", Num(0))),
   liters_total |-> Float(Get(s, "liters_delta", Num(0))),
   timestamp |-> Strftime(t), status |-> "", rid |-> rid]

\* The payload dict of the broadcast (rid names the reading it was built
\* for; it is not a key of the dict).
Payload(code, s, t, rid) ==
  [meter_code |-> code,
   flow_lps |-> Float(Get(s, "flow_lps", Num(0))),
   liters_delta |-> Float(Get(s, "liters_delta", Num(0))),
   liters_total |-> Float(Get(s, "liters_total", Num(0))),
   timestamp |-> Strftime(t), status |-> "", rid |-> rid]

\* The ingest task t ends with the given result.
Finished(t, result) ==
  [t EXCEPT !.pc = "done", !.result = result, !.cur = 0, !.curOk = FALSE]

\* Variant of Advance: the loop walks the live set instead of a snapshot: the
\* next websocket is the first registered one that was not tried yet.
AdvanceLive(r, t) ==
  LET live == IF t.code \in DOMAIN active
              THEN SelectSeq(active[t.code], LAMBDA x : x \notin Range(t.tried))
              ELSE <<>>
  IN  IF live = <<>>
      THEN /\ active' = Prune(active, t.code, t.dead)
           /\ task' = [task EXCEPT ![r] = Finished(t, "ok")]
           /\ received' = received
      ELSE /\ task' = [task EXCEPT ![r] =
                         [t EXCEPT !.todo = Tail(live), !.cur = Head(live),
                                   !.curOk = SendOk(Head(live)),
                                   !.pc = "sending",
                                   !.tried = Append(@, Head(live))]]
           /\ received' = Deliver(received, Head(live), t.payload)
           /\ active' = active

\* The rest of the broadcast pass of request r, whose locals are t, up to
\* its next suspension: call send_json on the next websocket of the snapshot
\* list, or, when the loop is over, unregister the dead websockets and
\* return {"status": "ok"} from ingest.
Advance(r, t) ==
  IF t.todo = <<>>
  THEN /\ active' = Prune(active, t.code, t.dead)
       /\ task' = [task EXCEPT ![r] = Finished(t, "ok")]
       /\ received' = received
  ELSE LET ws == Head(t.todo)
       IN  /\ task' = [task EXCEPT ![r] =
                         [t EXCEPT !.todo = Tail(@), !.cur = ws,
                                   !.curOk = SendOk(ws), !.pc = "sending",
                                   !.tried = Append(@, ws)]]
           /\ received' = Deliver(received, ws, t.payload)
           /\ active' = active

\* Variant of Broadcast: the meter's entry is created when it is missing.
BroadcastSetdefault(r, t) ==
  IF t.code \notin DOMAIN active
  THEN /\ task' = [task EXCEPT ![r] = Finished(t, "ok")]
       /\ active' = [k \in DOMAIN active \cup {t.code} |->
                       IF k = t.code THEN <<>> ELSE active[k]]
       /\ received' = received
  ELSE Advance(r, [t EXCEPT !.snap = active[t.code], !.todo = active[t.code]])

\* WSManager.broadcast up to its first suspension; list(self.active[code])
\* is the snapshot.
\* Variant of Broadcast: the pass runs over the websockets of every meter.
BroadcastAll(r, t) ==
  IF t.code \notin DOMAIN active
  THEN /\ task' = [task EXCEPT ![r] = Finished(t, "ok")]
       /\ UNCHANGED <<active, received>>
  ELSE LET others == UNION {Range(active[m]) : m \in DOMAIN active \ {t.code}}
           rest   == CHOOSE q \in [1..Cardinality(others) -> others] :
                       Range(q) = others
           all    == active[t.code] \o rest
       IN  Advance(r, [t EXCEPT !.snap = all, !.todo = all])

Broadcast(r, t) ==
  IF t.code \notin DOMAIN active
  THEN /\ task' = [task EXCEPT ![r] = Finished(t, "ok")]
       /\ UNCHANGED <<active, received>>
  ELSE Advance(r, [t EXCEPT !.snap = active[t.code], !.todo = active[t.code]])

\* POST /api/ingest, from the request to its first suspension or its end.
IngestCall(r, code, pin, s, commitOk) ==
  /\ task[r].pc = "idle"
  /\ LET t0 == [task[r] EXCEPT !.code = code, !.pin = pin]
     IN
     IF ~Authorized(code, pin)
     THEN /\ task' = [task EXCEPT ![r] = Finished(t0, "403")]
          /\ UNCHANGED <<active, readings, clock, received>>
     ELSE IF ~FloatsOk(s)
     THEN /\ task' = [task EXCEPT ![r] =
                        Finished([t0 EXCEPT !.sample = s], "500")]
          /\ UNCHANGED <<active, readings, clock, received>>
     ELSE   LET reading == NewReading(readings, code, s, Now)
                t1 == [t0 EXCEPT !.sample = s, !.committed = commitOk,
                                 !.payload = Payload(code, s, Now, reading.id)]
            IN  /\ clock' = Now
                /\ readings' = Persist(readings, reading, commitOk)
                /\ IF ReachesBroadcast(commitOk)
                   THEN Broadcast(r, [t1 EXCEPT !.bcast = @ + 1])
                   ELSE /\ task' = [task EXCEPT ![r] = Finished(t1, "500")]
                        /\ UNCHANGED <<active, received>>
  /\ UNCHANGED <<wsPc, wsMeter, transport>>

\* Variant of SendReturn: an exception of send_json is not caught and ends
\* ingest with a server failure.
SendReturnRaise(r) ==
  /\ task[r].pc = "sending"
  /\ IF task[r].curOk
     THEN Advance(r, task[r])
     ELSE /\ task' = [task EXCEPT ![r] = Finished(task[r], "500")]
          /\ UNCHANGED <<active, received>>
  /\ UNCHANGED <<readings, clock, wsPc, wsMeter, transport>>

\* Variant of SendReturn: the except clause unregisters the websocket at
\* once, inside the loop.
SendReturnEager(r) ==
  /\ task[r].pc = "sending"
  /\ LET t == task[r]
         act == IF t.curOk THEN active ELSE Disconnect(active, t.code, t.cur)
     IN  IF t.todo = <<>>
         THEN /\ active' = act
              /\ task' = [task EXCEPT ![r] = Finished(t, "ok")]
              /\ received' = received
         ELSE /\ task' = [task EXCEPT ![r] =
                            [t EXCEPT !.todo = Tail(@), !.cur = Head(t.todo),
                                      !.curOk = SendOk(Head(t.todo)),
                                      !.tried = Append(@, Head(t.todo))]]
              /\ received' = Deliver(received, Head(t.todo), t.payload)
              /\ active' = act
  /\ UNCHANGED <<readings, clock, wsPc, wsMeter, transport>>

\* The pending send_json of request r returns or raises; a raise is caught
\* and the websocket is appended to dead.  The pass then goes on.
SendReturn(r) ==
  /\ task[r].pc = "sending"
  /\ Advance(r, [task[r] EXCEPT
                   !.dead = IF task[r].curOk THEN @ ELSE Append(@, task[r].cur)])
  /\ UNCHANGED <<readings, clock, wsPc, wsMeter, transport>>

\* ------------------------------------------------------------ specification
Next ==
  \/ \E c \in Conns, m \in WsCodes : ConnectCall(c, m)
  \/ \E c \in Conns : AcceptReturn(c)
  \/ \E c \in Conns : AcceptRaise(c)
  \/ \E c \in Conns : InitialSendReturn(c)
  \/ \E c \in Conns : EndpointSleep(c)
  \/ \E c \in Conns : TransportClose(c)
  \/ \E r \in Reqs, code \in Codes, pin \in Pins, s \in Samples,
        commitOk \in BOOLEAN : IngestCall(r, code, pin, s, commitOk)
  \/ \E r \in Reqs : SendReturn(r)

Spec == Init /\ [][Next]_vars

\* The event loop runs every task that is ready: a pending accept or send
\* completes, and a sleeping endpoint wakes up.  Requests, new channels and
\* the closing of a transport are up to the environment.
Fairness ==
  /\ \A c \in Conns : WF_vars(AcceptReturn(c) \/ AcceptRaise(c))
  /\ \A c \in Conns : WF_vars(InitialSendReturn(c))
  /\ \A c \in Conns : WF_vars(EndpointSleep(c))
  /\ \A r \in Reqs : WF_vars(SendReturn(r))

FairSpec == Spec /\ Fairness

\* ------------------------------------------------------------------ claims
\* The connection set the registry holds for meter m (empty if none).
Subscribers(m) == IF m \in DOMAIN active THEN Range(active[m]) ELSE {}

\* The credentials of a request are those of a stored meter.
CredentialsMatch(code, pin) ==
  \E m \in DOMAIN Meters : m = code /\ Meters[m].pin = pin

\* Request r got past the credential check and the conversions, and its
\* commit failed.
CommitFailed(r) ==
  /\ task[r].pc = "done"
  /\ CredentialsMatch(task[r].code, task[r].pin)
  /\ \A k \in DOMAIN task[r].sample : task[r].sample[k].t # "bad"
  /\ ~task[r].committed

\* C1: in every reachable state a meter code is a key of `active` iff its
\* connection set is non-empty: no key maps to the empty set.
C1_KeyIffNonEmpty ==
  \A m \in WsCodes \cup Codes \cup DOMAIN active :
    (m \in DOMAIN active) <=> (Subscribers(m) # {})

\* A broadcast pass has pruned the last websocket of its meter, and the key
\* is gone, while another meter keeps its entry.
C1_Witness ==
  \E r \in Reqs :
    /\ task[r].pc = "done"
    /\ task[r].dead # <<>>
    /\ task[r].code \notin DOMAIN active
    /\ DOMAIN active # {}

\* C2: a broadcast is started only for a reading whose commit succeeded and
\* whose row is in the table; a request whose commit failed ends with a
\* server failure, zero broadcast invocations and zero delivery attempts.
C2_BroadcastAfterCommit ==
  \A r \in Reqs :
    /\ task[r].bcast > 0 =>
         /\ task[r].committed
         /\ task[r].payload.rid \in 1..Len(readings)
    /\ \A c \in Conns : \A i \in 1..Len(received[c]) :
         received[c][i].rid = 0 \/ received[c][i].rid \in 1..Len(readings)
    /\ CommitFailed(r) =>
         /\ task[r].result = "500"
         /\ task[r].bcast = 0
         /\ task[r].snap = <<>>
         /\ task[r].dead = <<>>

\* A commit failed while the meter of the request had a subscriber with an
\* open transport, which received nothing.
C2_Witness ==
  \E r \in Reqs : \E c \in Conns :
    /\ CommitFailed(r)
    /\ c \in Subscribers(task[r].code)
    /\ transport[c] = "open"
    /\ \A i \in 1..Len(received[c]) : received[c][i].rid = 0

\* C3: once a broadcast pass is over, every websocket whose delivery failed
\* in it is out of the registry set of the meter, a delivery was attempted
\* for every websocket of the snapshot, and every websocket of the snapshot
\* whose delivery did not fail has received the event of the pass.
C3_FailedPrunedOthersServed ==
  \A r \in Reqs :
    (task[r].pc = "done" /\ task[r].bcast > 0) =>
      /\ \A c \in Range(task[r].dead) : c \notin Subscribers(task[r].code)
      /\ task[r].todo = <<>>
      /\ Range(task[r].dead) \subseteq Range(task[r].snap)
      /\ \A c \in Range(task[r].snap) \ Range(task[r].dead) :
           \E i \in 1..Len(received[c]) : received[c][i] = task[r].payload

\* A finished pass over two websockets in which one delivery failed.
C3_Witness ==
  \E r \in Reqs :
    /\ task[r].pc = "done"
    /\ Len(task[r].snap) = 2
    /\ Len(task[r].dead) = 1
    /\ Subscribers(task[r].code) = Range(task[r].snap) \ Range(task[r].dead)

\* C4 (state part): a finished request whose credentials match no meter
\* returned the authorization failure, persisted nothing and never entered
\* broadcast.
C4_Rejected ==
  \A r \in Reqs :
    (task[r].pc = "done" /\ ~CredentialsMatch(task[r].code, task[r].pin)) =>
      /\ task[r].result = "403"
      /\ ~task[r].committed
      /\ task[r].bcast = 0
      /\ task[r].snap = <<>>

\* C4 (step part): the step that serves such a request leaves the readings,
\* the registry and what every subscriber has received unchanged.
C4_Step ==
  \A r \in Reqs :
    (/\ task[r].pc = "idle"
     /\ task'[r].pc = "done"
     /\ ~CredentialsMatch(task'[r].code, task'[r].pin)) =>
      /\ readings' = readings
      /\ active' = active
      /\ received' = received

\* C4: an ingest call with an unknown meter code or a wrong pin returns the
\* authorization failure (403) and leaves the Reading Store and the registry
\* unchanged, with no delivery attempted.
C4_UnauthorizedNoEffect == []C4_Rejected /\ [][C4_Step]_vars

\* A request with the pin of another meter was rejected while its meter had
\* a subscriber.
C4_Witness ==
  \E r \in Reqs :
    /\ task[r].pc = "done"
    /\ task[r].code \in DOMAIN Meters
    /\ ~CredentialsMatch(task[r].code, task[r].pin)
    /\ Subscribers(task[r].code) # {}

\* Event ev was built for a reading (it is not an initial event).
IsReadingEvent(ev) == ev.rid > 0

\* C5: every subscriber receives the reading events of its meter in the
\* order of the broadcast calls, which is the order of the readings' ids.
C5_PerConnectionOrder ==
  \A c \in Conns : \A i, j \in 1..Len(received[c]) :
    (i < j /\ IsReadingEvent(received[c][i]) /\ IsReadingEvent(received[c][j]))
      => received[c][i].rid < received[c][j].rid

\* C6: a registered websocket whose endpoint is in its keep-alive loop and
\* whose transport has closed is eventually out of the registry.
C6_ClosedEventuallyUnregistered ==
  \A c \in Conns :
    (wsPc[c] = "loop" /\ transport[c] = "closed"
       /\ c \in Subscribers(wsMeter[c]))
      ~> (c \notin Subscribers(wsMeter[c]))

\* C7: the first event a subscriber receives on a live channel is the
\* initial event: status "connected", the meter code of the channel and
\* zero for flow_lps, liters_delta and liters_total; never a reading event.
C7_FirstEventConnected ==
  \A c \in Conns :
    /\ received[c] # <<>> =>
         /\ received[c][1].status = "connected"
         /\ received[c][1].meter_code = wsMeter[c]
         /\ received[c][1].flow_lps = 0
         /\ received[c][1].liters_delta = 0
         /\ received[c][1].liters_total = 0
         /\ ~IsReadingEvent(received[c][1])
    /\ (c \in Subscribers(wsMeter[c]) /\ transport[c] = "open")
         => received[c] # <<>>

\* A subscriber got a reading event of a concurrent ingest while the send of
\* its initial event had not returned yet.
C7_Witness ==
  \E c \in Conns :
    /\ wsPc[c] = "greeting"
    /\ Len(received[c]) >= 2
    /\ IsReadingEvent(received[c][2])

\* Event ev carries the values of the persisted reading rd of meter `code`.
Mirrors(ev, rd, code) ==
  /\ ev.meter_code = code
  /\ code \in DOMAIN Meters /\ Meters[code].id = rd.meter_id
  /\ ev.flow_lps = rd.flow_lps
  /\ ev.liters_delta = rd.liters_delta
  /\ ev.liters_total = rd.liters_total
  /\ ev.timestamp = rd.timestamp \div TicksPerSecond

\* The positions of subscriber c's events that were built for reading rid.
EventsFor(c, rid) == {i \in 1..Len(received[c]) : received[c][i].rid = rid}

\* Subscriber c got exactly one event of request r, with the values of the
\* reading the request persisted.
GotReadingOf(c, r) ==
  /\ Cardinality(EventsFor(c, task[r].payload.rid)) = 1
  /\ \A i \in EventsFor(c, task[r].payload.rid) :
       Mirrors(received[c][i], readings[task[r].payload.rid], task[r].code)

\* C8 as claimed: after a successful ingest every websocket that was
\* registered for the meter when the broadcast began has received one event
\* with the values of the persisted reading.
C8_AllRegisteredReceive ==
  \A r \in Reqs :
    (task[r].pc = "done" /\ task[r].result = "ok") =>
      \A c \in Range(task[r].snap) : GotReadingOf(c, r)

\* C8 as amended: after a successful ingest every websocket that was
\* registered for the meter when the broadcast began and whose delivery did
\* not fail has received exactly one event with the meter code and the
\* values of the persisted reading (its timestamp formatted to the second);
\* a websocket whose delivery failed has received none.
C8_DeliveredMirrorReading ==
  \A r \in Reqs :
    (task[r].pc = "done" /\ task[r].result = "ok") =>
      /\ task[r].payload.rid \in 1..Len(readings)
      /\ \A c \in Range(task[r].snap) \ Range(task[r].dead) :
           GotReadingOf(c, r)
      /\ \A c \in Range(task[r].dead) :
           EventsFor(c, task[r].payload.rid) = {}

\* Both websockets of a meter received the event of a successful ingest whose
\* liters_delta and liters_total differ.
C8_Witness ==
  \E r \in Reqs :
    /\ task[r].pc = "done" /\ task[r].result = "ok"
    /\ Len(task[r].snap) = 2
    /\ task[r].dead = <<>>
    /\ task[r].payload.liters_delta # task[r].payload.liters_total

\* The requests whose commit succeeded.
Committed == {r \in Reqs : task[r].committed}

\* C9 (state part): the table holds one row per request whose commit
\* succeeded; a finished request succeeded iff its commit did.
C9_Count ==
  /\ Len(readings) = Cardinality(Committed)
  /\ \A i \in 1..Len(readings) : readings[i].id = i
  /\ \A r \in Reqs :
       task[r].pc = "done" => (task[r].result = "ok" <=> task[r].committed)

\* C9 (step part): a step adds at most one row and leaves every existing
\* row as it is.
C9_Step ==
  /\ Len(readings') \in {Len(readings), Len(readings) + 1}
  /\ \A i \in 1..Len(readings) : readings'[i] = readings[i]

\* C9: each successful ingest adds exactly one Reading and each failed one
\* adds none, so the number of readings is the number of successful calls
\* once the calls are over; no existing Reading is modified or removed.
C9_OneReadingPerSuccess == []C9_Count /\ [][C9_Step]_vars

\* Every request is over: one succeeded and one failed at its commit.
C9_Witness ==
  /\ \A r \in Reqs : task[r].pc = "done"
  /\ \E r \in Reqs : task[r].result = "ok"
  /\ \E r \in Reqs : CommitFailed(r)
  /\ Len(readings) = Cardinality({r \in Reqs : task[r].result = "ok"})

\* C10: a finished ingest with matching credentials whose commit succeeded
\* returned the success acknowledgement and its Reading is in the table,
\* whatever the deliveries did.
C10_DeliveryFailureSilent ==
  \A r \in Reqs :
    (/\ task[r].pc = "done"
     /\ CredentialsMatch(task[r].code, task[r].pin)
     /\ task[r].committed) =>
      /\ task[r].result = "ok"
      /\ task[r].payload.rid \in 1..Len(readings)
      /\ readings[task[r].payload.rid].id = task[r].payload.rid

\* An ingest returned the acknowledgement although every delivery of its
\* pass over two websockets failed.
C10_Witness ==
  \E r \in Reqs :
    /\ task[r].pc = "done" /\ task[r].result = "ok"
    /\ Len(task[r].snap) = 2
    /\ Range(task[r].dead) = Range(task[r].snap)

\* C11 (step part): a request that enters broadcast while its meter has no
\* subscriber ends in the same step with the acknowledgement, and the step
\* leaves the registry and what every subscriber has received unchanged.
C11_Step ==
  \A r \in Reqs :
    (/\ task[r].pc = "idle"
     /\ task'[r].bcast = 1
     /\ Subscribers(task'[r].code) = {}) =>
      /\ task'[r].pc = "done"
      /\ task'[r].result = "ok"
      /\ task'[r].tried = <<>>
      /\ active' = active
      /\ received' = received

\* C11 (state part): a pass that found no subscriber made no delivery
\* attempt, and the registry never holds an entry without members.
C11_NoAttempt ==
  /\ \A r \in Reqs :
       (task[r].bcast = 1 /\ task[r].snap = <<>>) =>
         (task[r].pc = "done" /\ task[r].result = "ok"
            /\ task[r].tried = <<>> /\ task[r].dead = <<>>)
  /\ \A m \in DOMAIN active : active[m] # <<>>

\* C11: broadcast on a meter with zero subscribers performs no delivery
\* attempt, returns without error and leaves the registry unchanged (it
\* creates no entry for the meter).
C11_EmptyBroadcastNoOp == []C11_NoAttempt /\ [][C11_Step]_vars

\* An ingest found no subscriber for its meter while another meter had one.
C11_Witness ==
  \E r \in Reqs :
    /\ task[r].pc = "done" /\ task[r].result = "ok"
    /\ task[r].bcast = 1 /\ task[r].snap = <<>>
    /\ DOMAIN active # {}
    /\ task[r].code \notin DOMAIN active

\* C12 (state part): on every reachable registry, disconnect of a websocket
\* that is not registered under the meter (also a meter without entry)
\* returns the registry as it is, and a second disconnect changes nothing.
C12_NoOp ==
  \A m \in WsCodes \cup Codes : \A c \in Conns :
    /\ c \notin Subscribers(m) => Disconnect(active, m, c) = active
    /\ Disconnect(Disconnect(active, m, c), m, c) = Disconnect(active, m, c)

\* C12 (step part): a pass that ends by unregistering only websockets that
\* are no longer registered ends without error and leaves the registry as
\* it is.
C12_Step ==
  \A r \in Reqs :
    (/\ task[r].pc = "sending"
     /\ task'[r].pc = "done"
     /\ Range(task'[r].dead) \cap Subscribers(task[r].code) = {}) =>
      /\ task'[r].result = "ok"
      /\ active' = active

\* C12: unregistering is idempotent: disconnect of a connection that is not
\* registered under the meter raises no error and leaves the whole registry
\* unchanged.
C12_DisconnectIdempotent == []C12_NoOp /\ [][C12_Step]_vars

\* Two passes have unregistered the same websocket, the second one after it
\* was gone, and the meter still has another subscriber.
C12_Witness ==
  \E r1, r2 \in Reqs : \E c \in Conns :
    /\ r1 # r2
    /\ task[r1].pc = "done" /\ task[r2].pc = "done"
    /\ c \in Range(task[r1].dead) \cap Range(task[r2].dead)
    /\ Subscribers(task[r1].code) # {}

\* Websocket c is in the registry set of the meter it was opened for.
Registered(c) == c \in Subscribers(wsMeter[c])

\* C13 (step part): a step takes a websocket out of the registry only if it
\* ends a pass in which the delivery to that websocket failed; a registered
\* websocket whose transport is open after the step is still registered.
C13_Step ==
  \A c \in Conns :
    /\ (Registered(c) /\ c \notin Subscribers(wsMeter[c])') =>
         \E r \in Reqs :
           /\ task[r].pc = "sending" /\ task'[r].pc = "done"
           /\ c \in Range(task'[r].dead)
           /\ transport[c] = "closed"
    /\ (Registered(c) /\ transport'[c] = "open") =>
         c \in Subscribers(wsMeter[c])'

\* C13 (state part): only deliveries to closed transports fail.
C13_DeadAreClosed ==
  \A r \in Reqs : \A c \in Range(task[r].dead) : transport[c] = "closed"

\* C13: a registered connection leaves the registry only through a failed
\* delivery to it (or a detected disconnect of it, which never occurs): a
\* connection whose transport stays open, so that its deliveries succeed,
\* stays registered, however long it idles and whatever happens to others.
C13_OnlyFailureRemoves == []C13_DeadAreClosed /\ [][C13_Step]_vars

\* An idle websocket in its keep-alive loop is still registered after a pass
\* that served it and pruned another websocket of the same meter.
C13_Witness ==
  \E r \in Reqs : \E c \in Conns :
    /\ task[r].pc = "done"
    /\ task[r].dead # <<>>
    /\ c \in Range(task[r].snap) \ Range(task[r].dead)
    /\ wsPc[c] = "loop" /\ transport[c] = "open"
    /\ Registered(c)

NumericFields == {"flow_lps", "liters_delta", "liters_total"}

\* The number a sample supplies for field k: its value, or 0 if k is missing.
Supplied(s, k) == IF k \in DOMAIN s THEN s[k].v ELSE 0

\* Every value the sample holds is a number or a numeric string.
AllNumeric(s) == \A k \in DOMAIN s : s[k].t \in {"num", "str"}

\* C14 (step part): a request with matching credentials whose sample holds
\* only numeric values, some of its fields possibly missing, gets past the
\* conversions: it reads the clock and goes on to the commit.
C14_Step ==
  \A r \in Reqs :
    (/\ task[r].pc = "idle" /\ task'[r].pc # "idle"
     /\ CredentialsMatch(task'[r].code, task'[r].pin)
     /\ AllNumeric(task'[r].sample)) =>
      /\ clock' = clock + 1
      /\ task'[r].committed \/ task'[r].result = "500"
      /\ task'[r].committed => Len(readings') = Len(readings) + 1

\* C14 (state part): the Reading and the event of a request whose commit
\* succeeded carry, for each numeric field, the supplied value, and 0 when
\* the field is missing; the request ends with the acknowledgement.
C14_Values ==
  \A r \in Reqs :
    task[r].committed =>
      /\ task[r].payload.rid \in 1..Len(readings)
      /\ \A k \in NumericFields :
           /\ readings[task[r].payload.rid][k] = Supplied(task[r].sample, k)
           /\ task[r].payload[k] = Supplied(task[r].sample, k)
      /\ \A c \in Conns : \A i \in EventsFor(c, task[r].payload.rid) :
           \A k \in NumericFields :
             received[c][i][k] = Supplied(task[r].sample, k)
      /\ task[r].pc = "done" => task[r].result = "ok"

\* C14: with valid credentials every missing numeric field is taken as zero
\* instead of failing the call: the call succeeds, and the persisted
\* Reading and the broadcast event carry 0 for a missing field and the
\* supplied value for a present one.
C14_MissingFieldsZero == []C14_Values /\ [][C14_Step]_vars

\* A subscriber received the event of a successful ingest whose sample had
\* no liters_delta: the event carries 0 for it and the supplied flow_lps.
C14_Witness ==
  \E r \in Reqs : \E c \in Conns :
    /\ task[r].pc = "done" /\ task[r].result = "ok"
    /\ "liters_delta" \notin DOMAIN task[r].sample
    /\ "flow_lps" \in DOMAIN task[r].sample
    /\ \E i \in EventsFor(c, task[r].payload.rid) :
         /\ received[c][i].liters_delta = 0
         /\ received[c][i].flow_lps = task[r].sample["flow_lps"].v
         /\ received[c][i].flow_lps # 0
    /\ readings[task[r].payload.rid].liters_delta = 0

\* The initial event of websocket c has been handed to its transport.
InitialHandedOver(c) ==
  received[c] # <<>> /\ received[c][1].status = "connected"

\* C15: a websocket that is a member of the registry has had its initial
\* "connected" event sent.
C15_RegisteredAfterInitialSent ==
  \A c \in Conns : Registered(c) => InitialHandedOver(c)

\* C16 (state part): the websockets a pass has called send_json on are, in
\* order and without repetition, the first ones of its snapshot; the rest of
\* the snapshot is still to come; a finished pass has tried exactly its
\* snapshot and has returned without error.
C16_TriedIsSnapshot ==
  \A r \in Reqs :
    /\ task[r].tried \o task[r].todo = task[r].snap
    /\ Cardinality(Range(task[r].snap)) = Len(task[r].snap)
    /\ (task[r].pc = "done" /\ task[r].bcast = 1) =>
         (task[r].tried = task[r].snap /\ task[r].result = "ok")

\* C16 (step part): the snapshot is the registry set of the meter at the
\* instant the pass begins, and no later step changes it.
C16_Step ==
  \A r \in Reqs :
    /\ (task[r].pc = "idle" /\ task'[r].bcast = 1) =>
         Range(task'[r].snap) = Subscribers(task'[r].code)
    /\ task[r].pc # "idle" => task'[r].snap = task[r].snap

\* C16: a broadcast pass attempts delivery exactly once to each connection
\* registered for the meter when the pass began and to no other, whatever
\* is registered or unregistered while the pass is suspended.
C16_SnapshotPass == []C16_TriedIsSnapshot /\ [][C16_Step]_vars

\* A websocket was registered for the meter while a pass was suspended on a
\* send: it is no part of the pass and has no event of it.
C16_Witness ==
  \E r \in Reqs : \E c \in Conns :
    /\ task[r].pc = "sending"
    /\ c \in Subscribers(task[r].code) \ Range(task[r].snap)
    /\ transport[c] = "open"
    /\ EventsFor(c, task[r].payload.rid) = {}

\* C17: a step of a pass that is not its last leaves the registry as it is;
\* the last step comes after send_json was called on every websocket of the
\* snapshot, takes exactly the websockets whose delivery failed out of the
\* meter's set, and ends without error also when they, or the meter's
\* entry, are already gone.
C17_Step ==
  \A r \in Reqs :
    /\ (task'[r] # task[r] /\ task'[r].pc = "sending") => active' = active
    /\ (task[r].pc = "sending" /\ task'[r].pc = "done") =>
         /\ task[r].todo = <<>>
         /\ task'[r].tried = task'[r].snap
         /\ Range(task'[r].dead) \subseteq Range(task'[r].tried)
         /\ task'[r].result = "ok"
         /\ Subscribers(task[r].code)' =
              Subscribers(task[r].code) \ Range(task'[r].dead)

C17_PruneAfterPass == [][C17_Step]_vars

\* Two passes over the same websockets both ended by unregistering the same
\* dead websocket; the later one found the meter's entry already removed.
C17_Witness ==
  \E r1, r2 \in Reqs : \E c \in Conns :
    /\ r1 # r2
    /\ task[r1].pc = "done" /\ task[r1].result = "ok"
    /\ task[r2].pc = "done" /\ task[r2].result = "ok"
    /\ Len(task[r1].snap) = 2 /\ task[r2].snap = task[r1].snap
    /\ c \in Range(task[r1].dead) \cap Range(task[r2].dead)
    /\ task[r1].code \notin DOMAIN active

\* C18: a websocket whose endpoint ended at the failed send of the initial
\* event (or at a failed accept) is not in the registry.
C18_FailedOpenNotRegistered ==
  \A c \in Conns : wsPc[c] = "crashed" => ~Registered(c)

\* C19: a step of an ingest for meter M leaves every other meter's entry of
\* the registry and every connection opened for another meter as they are,
\* and a pass calls send_json only on connections opened for M, also when
\* deliveries to M's connections fail.
C19_Step ==
  \A r \in Reqs :
    task'[r] # task[r] =>
      /\ \A m \in WsCodes \ {task'[r].code} :
           /\ (m \in DOMAIN active) <=> (m \in DOMAIN active')
           /\ m \in DOMAIN active => active'[m] = active[m]
      /\ \A c \in Conns :
           wsMeter[c] # task'[r].code => received'[c] = received[c]

C19_OnlyOwnMeter ==
  \A r \in Reqs : \A c \in Range(task[r].tried) : wsMeter[c] = task[r].code

C19_MeterIsolation == []C19_OnlyOwnMeter /\ [][C19_Step]_vars

\* A pass for one meter ended with a failed delivery while a connection of
\* another meter is registered and open and holds only its initial event.
C19_Witness ==
  \E r \in Reqs : \E c \in Conns :
    /\ task[r].pc = "done" /\ task[r].result = "ok"
    /\ task[r].dead # <<>>
    /\ wsMeter[c] \in WsCodes \ {task[r].code}
    /\ Registered(c) /\ transport[c] = "open"
    /\ Len(received[c]) = 1

=============================================================================
